---- MODULE Spec2Model ----
(***************************************************************************)
(* Model of the common API test helper library.  Two bundled variants are  *)
(* modelled side by side:                                                  *)
(*   "pm"  - src/unnamed/part_000 (pm.test, pm.response, postman)          *)
(*   "bdd" - src/Commontests.js   (Postman BDD: it, response.should)       *)
(* A test script runs against one response; every library call is one      *)
(* synchronous step.  The host runner is modelled by what the library can   *)
(* observe of it: the outcomes registered (pm.test / it), the next-request  *)
(* setting (postman.setNextRequest), the console and the pending timers.    *)
(***************************************************************************)
EXTENDS Integers, Sequences, FiniteSets, TLC

VARIABLES variant, response, nextRequest, timers, console, calls, pc, last

vars == <<variant, response, nextRequest, timers, console, calls, pc, last>>

(***************************************************************************)
(* Bounds of the model.                                                    *)
(***************************************************************************)
MaxCalls == 2
MaxLen == 2
RandomSteps == 4

(***************************************************************************)
(* JavaScript values.  A value is a record of its runtime kind with a       *)
(* numeric and a string payload:                                           *)
(*   Number  : num, or NaN when str = "NaN"                                 *)
(*   String  : str                                                         *)
(*   Object  : num identifies the object (for a schema: which schema)       *)
(*   Array   : str is the array's string conversion ("" for [],            *)
(*             "200" for [200])                                            *)
(*   Boolean : num = 1 for true, 0 for false                               *)
(***************************************************************************)
Num(n) == [kind |-> "Number", num |-> n, str |-> ""]
NaN == [kind |-> "Number", num |-> 0, str |-> "NaN"]
Str(s) == [kind |-> "String", num |-> 0, str |-> s]
Obj(id) == [kind |-> "Object", num |-> id, str |-> ""]
Arr(s) == [kind |-> "Array", num |-> 0, str |-> s]
Bool(b) == [kind |-> "Boolean", num |-> IF b THEN 1 ELSE 0, str |-> ""]
Null == [kind |-> "Null", num |-> 0, str |-> ""]
Undefined == [kind |-> "Undefined", num |-> 0, str |-> ""]

IsNaN(v) == v.kind = "Number" /\ v.str = "NaN"

\* Object.prototype.toString.call(value) with the "[object " and "]" removed
getType(value) == value.kind

\* the typeof operator
typeof(value) ==
  CASE value.kind = "Number" -> "number"
    [] value.kind = "String" -> "string"
    [] value.kind = "Boolean" -> "boolean"
    [] value.kind = "Undefined" -> "undefined"
    [] OTHER -> "object"

\* truthiness, as used by `x && f(x)`
ToBoolean(value) ==
  CASE value.kind = "Number" -> ~IsNaN(value) /\ value.num # 0
    [] value.kind = "String" -> value.str # ""
    [] value.kind = "Boolean" -> value.num = 1
    [] value.kind = "Null" -> FALSE
    [] value.kind = "Undefined" -> FALSE
    [] OTHER -> TRUE

\* numeric value of a string: only the numeric strings of the model parse
StringToNumber(s) ==
  CASE s = "" -> Num(0)
    [] s = "5" -> Num(5)
    [] s = "200" -> Num(200)
    [] s = "500" -> Num(500)
    [] OTHER -> NaN

\* ToNumber, as applied by the relational operators to a non-number operand
ToNumber(value) ==
  CASE value.kind = "Number" -> value
    [] value.kind = "String" -> StringToNumber(value.str)
    [] value.kind = "Array" -> StringToNumber(value.str)
    [] value.kind = "Boolean" -> Num(value.num)
    [] value.kind = "Null" -> Num(0)
    [] OTHER -> NaN

\* a <= b and a > b on values; any comparison with NaN is false
JsLe(a, b) ==
  LET x == ToNumber(a)
      y == ToNumber(b)
  IN  ~IsNaN(x) /\ ~IsNaN(y) /\ x.num <= y.num

JsGt(a, b) ==
  LET x == ToNumber(a)
      y == ToNumber(b)
  IN  ~IsNaN(x) /\ ~IsNaN(y) /\ x.num > y.num

JsGe(a, b) ==
  LET x == ToNumber(a)
      y == ToNumber(b)
  IN  ~IsNaN(x) /\ ~IsNaN(y) /\ x.num >= y.num

\* a === b for a number a (a response field) and any value b
StrictEqualsNumber(n, b) == b.kind = "Number" /\ ~IsNaN(b) /\ b.num = n

\* a == b for a number a and any value b
LooseEqualsNumber(n, b) ==
  IF b.kind \in {"Object", "Undefined", "Null"} THEN FALSE
  ELSE LET y == ToNumber(b) IN ~IsNaN(y) /\ y.num = n

\* string conversion, as applied by '...' + value and by template literals
JsToString(value) ==
  CASE value.kind = "Number" -> IF IsNaN(value) THEN "NaN" ELSE ToString(value.num)
    [] value.kind = "String" -> value.str
    [] value.kind = "Boolean" -> IF value.num = 1 THEN "true" ELSE "false"
    [] value.kind = "Null" -> "null"
    [] value.kind = "Undefined" -> "undefined"
    [] value.kind = "Array" -> value.str
    [] OTHER -> "[object Object]"

(***************************************************************************)
(* The effect of a call: the outcomes it registered with the host runner    *)
(* (pm.test / it), the number of postman.setNextRequest(null) calls, the    *)
(* error it raised ("none" when it returned), the function the error's      *)
(* message names, the checks that were entered, and the returned value.     *)
(***************************************************************************)
NoEffect ==
  [outcomes |-> <<>>, aborts |-> 0, error |-> "none", errorFn |-> "",
   called |-> <<>>, result |-> Undefined, logs |-> <<>>, timeouts |-> 0]

Return(v) == [NoEffect EXCEPT !.result = v]

Throw(kind, fn) == [NoEffect EXCEPT !.error = kind, !.errorFn = fn]

\* pm.test(description, callback) / it(description, callback): the host runs
\* the callback, catches what it raises and records one named outcome
RegisterTest(check, label, pass) ==
  [NoEffect EXCEPT !.outcomes = <<[check |-> check, label |-> label, pass |-> pass]>>]

\* postman.setNextRequest(null)
SetNextRequestNull == [NoEffect EXCEPT !.aborts = 1]

\* console.log(message)
ConsoleLog(message) == [NoEffect EXCEPT !.logs = <<message>>]

\* setTimeout(callback, time)
SetTimeout == [NoEffect EXCEPT !.timeouts = 1]

\* statement sequencing: e2 runs only if e1 raised nothing
AndThen(e1, e2) ==
  IF e1.error # "none" THEN e1
  ELSE [outcomes |-> e1.outcomes \o e2.outcomes,
        aborts |-> e1.aborts + e2.aborts,
        error |-> e2.error, errorFn |-> e2.errorFn,
        called |-> e1.called \o e2.called,
        result |-> e2.result,
        logs |-> e1.logs \o e2.logs,
        timeouts |-> e1.timeouts + e2.timeouts]

\* entering the body of function fn
Enter(fn, e) == [e EXCEPT !.called = <<fn>> \o @]

Skip == Return(Undefined)

(***************************************************************************)
(* The response of the host runner (pm.response / response / responseBody). *)
(* body: "" is an empty body, "oops" is text that is no JSON, "{}" is the   *)
(* JSON document {}.  A header that is absent is "".                        *)
(***************************************************************************)
ParsesAsJSON(body) == body = "{}"

\* tv4.validate(document, schema) / should.have.schema(schema): schema 0 is
\* {}, schema 1 is {"type": "object", "required": ["id"]}; a schema that is
\* not an object constrains nothing
SchemaValid(body, schema) ==
  IF schema.kind # "Object" THEN TRUE
  ELSE IF schema.num = 0 THEN TRUE
  ELSE FALSE

\* String.prototype.includes on the strings of the model
StringIncludes(h, s) ==
  \/ s = ""
  \/ s = h
  \/ h = "application/json; charset=utf-8" /\ s \in {"application/json", "json"}
  \/ h = "application/json" /\ s = "json"

\* response.type: the media type of the Content-Type header, parameters dropped
ResponseType(resp) ==
  IF resp.contentType = "application/json; charset=utf-8" THEN "application/json"
  ELSE resp.contentType

(***************************************************************************)
(* getFunctionNameFromInside(new Error()): the name of the calling function *)
(* is read from the second line of the error's stack.                       *)
(***************************************************************************)
NewError(fn) == [kind |-> "Error", num |-> 0, str |-> fn]

getFunctionNameFromInside(error) ==
  IF getType(error) = "Error" THEN Return(Str(error.str))
  ELSE Throw("TypeError", "getFunctionNameFromInside")

\* throw new TypeError/RangeError(`${MESSAGE} ${getFunctionNameFromInside(new Error())}`)
ThrowNamed(kind, fn) ==
  LET name == getFunctionNameFromInside(NewError(fn))
  IN  AndThen(name, Throw(kind, name.result.str))

(***************************************************************************)
(* convertTime                                                             *)
(***************************************************************************)
\* the decimal digits of n / 1000, as Number.prototype.toString prints them
DivideBy1000(n) ==
  LET q == n \div 1000
      r == n % 1000
      d1 == r \div 100
      d2 == (r \div 10) % 10
      d3 == r % 10
      frac == IF d3 # 0 THEN ToString(d1) \o ToString(d2) \o ToString(d3)
              ELSE IF d2 # 0 THEN ToString(d1) \o ToString(d2)
              ELSE ToString(d1)
  IN  IF r = 0 THEN ToString(q) ELSE ToString(q) \o "." \o frac

ConvertNumber(time) ==
  IF JsGe(time, Num(1000)) THEN DivideBy1000(time.num) \o "s"
  ELSE JsToString(time) \o "ms"

convertTime_pm(time) ==
  IF getType(time) = "Number" THEN Return(Str(ConvertNumber(time)))
  ELSE ThrowNamed("TypeError", "convertTime")

convertTime_bdd(time) ==
  IF typeof(time) = "number" THEN Return(Str(ConvertNumber(time)))
  ELSE Throw("TypeError", "convertTime")

(***************************************************************************)
(* The five assertion functions, per variant.                              *)
(***************************************************************************)
checkTime_pm(time, resp) ==
  Enter("checkTime",
    IF getType(time) = "Number" THEN
      IF JsGt(time, Num(0)) THEN
        LET converted == convertTime_pm(time)
        IN  AndThen(converted,
              RegisterTest("time", "Response Time < " \o converted.result.str,
                           resp.responseTime < time.num))
      ELSE ThrowNamed("RangeError", "checkTime")
    ELSE ThrowNamed("TypeError", "checkTime"))

\* the assertion made with "at most" instead of "below"
checkTime_bdd_atMost(time, resp) ==
  Enter("checkTime",
    IF JsGt(time, Num(0)) THEN
      LET converted == convertTime_bdd(time)
      IN  AndThen(converted,
            RegisterTest("time", "should respond within " \o converted.result.str,
                         resp.responseTime <= time.num))
    ELSE Throw("RangeError", "checkTime"))

checkTime_bdd(time, resp) ==
  Enter("checkTime",
    IF JsGt(time, Num(0)) THEN
      LET converted == convertTime_bdd(time)
      IN  AndThen(converted,
            RegisterTest("time", "should respond within " \o converted.result.str,
                         resp.responseTime < time.num))
    ELSE Throw("RangeError", "checkTime"))

\* the list with 403 forgotten
ERROR_CODES_short == <<503, 500, 502, 504, 401>>

ERROR_CODES == <<503, 500, 502, 504, 401, 403>>

\* the abort given for any status that differs from the expected one
AbortLoop_always(i, code) == SetNextRequestNull

\* for (i = 0; i < ERROR_CODES.length; i++) if (code === ERROR_CODES[i]) { abort; break; }
RECURSIVE AbortLoop(_, _)
AbortLoop(i, code) ==
  IF i > Len(ERROR_CODES) THEN Skip
  ELSE IF code = ERROR_CODES[i] THEN SetNextRequestNull
  ELSE AbortLoop(i + 1, code)

\* a bucket boundary slip: 499 falls through to the default branch
StatusBucket_boundary(statusCode) ==
  CASE JsLe(Num(100), statusCode) /\ JsLe(statusCode, Num(199)) -> "(Information)"
    [] JsLe(Num(200), statusCode) /\ JsLe(statusCode, Num(299)) -> "(Success)"
    [] JsLe(Num(300), statusCode) /\ JsLe(statusCode, Num(399)) -> "(Redirection)"
    [] JsLe(Num(400), statusCode) /\ JsLe(statusCode, Num(498)) -> "(Client Error)"
    [] JsLe(Num(500), statusCode) /\ JsLe(statusCode, Num(599)) -> "(Server Error)"
    [] OTHER -> ""

\* the switch (true) of checkStatusCode: the suffix of the description, or
\* "" for the default branch
StatusBucket(statusCode) ==
  CASE JsLe(Num(100), statusCode) /\ JsLe(statusCode, Num(199)) -> "(Information)"
    [] JsLe(Num(200), statusCode) /\ JsLe(statusCode, Num(299)) -> "(Success)"
    [] JsLe(Num(300), statusCode) /\ JsLe(statusCode, Num(399)) -> "(Redirection)"
    [] JsLe(Num(400), statusCode) /\ JsLe(statusCode, Num(499)) -> "(Client Error)"
    [] JsLe(Num(500), statusCode) /\ JsLe(statusCode, Num(599)) -> "(Server Error)"
    [] OTHER -> ""

checkStatusCode_pm(statusCode, resp) ==
  Enter("checkStatusCode",
    IF getType(statusCode) = "Number" THEN
      IF StatusBucket(statusCode) = "" THEN ThrowNamed("RangeError", "checkStatusCode")
      ELSE AndThen(
             RegisterTest("status", "Status Code " \o StatusBucket(statusCode),
                          resp.code = statusCode.num),
             IF ~LooseEqualsNumber(resp.code, statusCode)
             THEN AbortLoop(1, resp.code)
             ELSE Skip)
    ELSE ThrowNamed("TypeError", "checkStatusCode"))

StatusDescription_bdd(statusCode) ==
  CASE JsLe(Num(100), statusCode) /\ JsLe(statusCode, Num(199)) ->
         "should be an information response"
    [] JsLe(Num(200), statusCode) /\ JsLe(statusCode, Num(299)) ->
         "should be a successful response"
    [] JsLe(Num(300), statusCode) /\ JsLe(statusCode, Num(399)) ->
         "should be a redirection response"
    [] JsLe(Num(400), statusCode) /\ JsLe(statusCode, Num(499)) ->
         "should be a client error response"
    [] JsLe(Num(500), statusCode) /\ JsLe(statusCode, Num(599)) ->
         "should be a server error response"
    [] OTHER -> ""

checkStatusCode_bdd(statusCode, resp) ==
  Enter("checkStatusCode",
    IF StatusDescription_bdd(statusCode) = "" THEN Throw("RangeError", "checkStatusCode")
    ELSE RegisterTest("status", StatusDescription_bdd(statusCode),
                      LooseEqualsNumber(resp.code, statusCode)))

checkContentType_pm(contentType, resp) ==
  Enter("checkContentType",
    IF getType(contentType) = "String" THEN
      RegisterTest("contentType", "Content Type",
                   resp.contentType # "" /\ StringIncludes(resp.contentType, contentType.str))
    ELSE ThrowNamed("TypeError", "checkContentType"))

checkContentType_bdd(contentType, resp) ==
  Enter("checkContentType",
    RegisterTest("contentType",
                 "should be of type \"" \o JsToString(contentType) \o "\"",
                 contentType.kind = "String" /\ ResponseType(resp) = contentType.str))

checkJSONSchema_pm(jsonSchema, resp) ==
  Enter("checkJSONSchema",
    IF getType(jsonSchema) = "Object" THEN
      IF ~ParsesAsJSON(resp.body) THEN Throw("JSONError", "json")
      ELSE LET VALID == SchemaValid(resp.body, jsonSchema)
           IN  RegisterTest("schema",
                            IF VALID THEN "JSON Schema"
                            ELSE "JSON Schema (Missing required property: id for data path /)",
                            VALID)
    ELSE ThrowNamed("TypeError", "checkJSONSchema"))

checkJSONSchema_bdd(jsonSchema, resp) ==
  Enter("checkJSONSchema",
    IF typeof(jsonSchema) = "object" THEN
      RegisterTest("schema", "should match against the JSON schema",
                   ParsesAsJSON(resp.body) /\ SchemaValid(resp.body, jsonSchema))
    ELSE Throw("TypeError", "checkJSONSchema"))

checkLocation_pm(location, resp) ==
  Enter("checkLocation",
    IF getType(location) = "String" THEN
      RegisterTest("location", "Location",
                   resp.location # "" /\ resp.location = location.str)
    ELSE ThrowNamed("TypeError", "checkLocation"))

checkLocation_bdd(location, resp) ==
  Enter("checkLocation",
    RegisterTest("location",
                 "should return the location \"" \o JsToString(location) \o "\"",
                 location.kind = "String" /\ resp.location # ""
                   /\ resp.location = location.str))

checkTime(v, time, resp) ==
  IF v = "pm" THEN checkTime_pm(time, resp) ELSE checkTime_bdd(time, resp)

checkStatusCode(v, statusCode, resp) ==
  IF v = "pm" THEN checkStatusCode_pm(statusCode, resp)
  ELSE checkStatusCode_bdd(statusCode, resp)

checkContentType(v, contentType, resp) ==
  IF v = "pm" THEN checkContentType_pm(contentType, resp)
  ELSE checkContentType_bdd(contentType, resp)

checkJSONSchema(v, jsonSchema, resp) ==
  IF v = "pm" THEN checkJSONSchema_pm(jsonSchema, resp)
  ELSE checkJSONSchema_bdd(jsonSchema, resp)

checkLocation(v, location, resp) ==
  IF v = "pm" THEN checkLocation_pm(location, resp)
  ELSE checkLocation_bdd(location, resp)

(***************************************************************************)
(* The composite test functions.                                           *)
(***************************************************************************)
\* the body logged whether or not it is empty
logResponseBody_always(v, resp) ==
  RegisterTest("body",
               (IF v = "pm" THEN "Response Body: " ELSE "response body: ") \o resp.body,
               TRUE)

logResponseBody(v, resp) ==
  IF resp.body # "" THEN
    RegisterTest("body",
                 (IF v = "pm" THEN "Response Body: " ELSE "response body: ") \o resp.body,
                 TRUE)
  ELSE Skip

\* the stricter variant with its status gate left out
testCommon_pm_ungated(statusCode, contentType, jsonSchema, location, resp) ==
  AndThen(logResponseBody("pm", resp),
  AndThen(IF ToBoolean(statusCode) THEN checkStatusCode_pm(statusCode, resp) ELSE Skip,
  AndThen(IF ToBoolean(contentType) THEN checkContentType_pm(contentType, resp) ELSE Skip,
  AndThen(IF ToBoolean(jsonSchema) THEN checkJSONSchema_pm(jsonSchema, resp) ELSE Skip,
          IF ToBoolean(location) THEN checkLocation_pm(location, resp) ELSE Skip))))

testCommon_pm(statusCode, contentType, jsonSchema, location, resp) ==
  AndThen(logResponseBody("pm", resp),
  AndThen(IF ToBoolean(statusCode) THEN checkStatusCode_pm(statusCode, resp) ELSE Skip,
          IF StrictEqualsNumber(resp.code, statusCode) THEN
            AndThen(IF ToBoolean(contentType) THEN checkContentType_pm(contentType, resp)
                    ELSE Skip,
            AndThen(IF ToBoolean(jsonSchema) THEN checkJSONSchema_pm(jsonSchema, resp)
                    ELSE Skip,
                    IF ToBoolean(location) THEN checkLocation_pm(location, resp)
                    ELSE Skip))
          ELSE Skip))

\* the looser variant with the status gate of the other one
testCommon_bdd_gated(statusCode, contentType, jsonSchema, location, resp) ==
  AndThen(logResponseBody("bdd", resp),
  AndThen(IF ToBoolean(statusCode) THEN checkStatusCode_bdd(statusCode, resp) ELSE Skip,
          IF StrictEqualsNumber(resp.code, statusCode) THEN
            AndThen(IF ToBoolean(contentType) THEN checkContentType_bdd(contentType, resp)
                    ELSE Skip,
            AndThen(IF ToBoolean(jsonSchema) THEN checkJSONSchema_bdd(jsonSchema, resp)
                    ELSE Skip,
                    IF ToBoolean(location) THEN checkLocation_bdd(location, resp)
                    ELSE Skip))
          ELSE Skip))

testCommon_bdd(statusCode, contentType, jsonSchema, location, resp) ==
  AndThen(logResponseBody("bdd", resp),
  AndThen(IF ToBoolean(statusCode) THEN checkStatusCode_bdd(statusCode, resp) ELSE Skip,
  AndThen(IF ToBoolean(contentType) THEN checkContentType_bdd(contentType, resp) ELSE Skip,
  AndThen(IF ToBoolean(jsonSchema) THEN checkJSONSchema_bdd(jsonSchema, resp) ELSE Skip,
          IF ToBoolean(location) THEN checkLocation_bdd(location, resp) ELSE Skip))))

testCommon(v, statusCode, contentType, jsonSchema, location, resp) ==
  IF v = "pm" THEN testCommon_pm(statusCode, contentType, jsonSchema, location, resp)
  ELSE testCommon_bdd(statusCode, contentType, jsonSchema, location, resp)

\* the time check moved inside the status gate
testCommonAndTime_gated(v, statusCode, time, contentType, jsonSchema, location, resp) ==
  AndThen(testCommon(v, statusCode, contentType, jsonSchema, location, resp),
          IF ToBoolean(time) /\ StrictEqualsNumber(resp.code, statusCode)
          THEN checkTime(v, time, resp) ELSE Skip)

testCommonAndTime(v, statusCode, time, contentType, jsonSchema, location, resp) ==
  AndThen(testCommon(v, statusCode, contentType, jsonSchema, location, resp),
          IF ToBoolean(time) THEN checkTime(v, time, resp) ELSE Skip)

(***************************************************************************)
(* delayTime                                                               *)
(***************************************************************************)
\* a delay that waits: the callback's work is done before the call returns
delayTime_pm_blocking(time) ==
  IF getType(time) = "Number" THEN
    LET converted == convertTime_pm(time)
    IN  AndThen(converted,
        AndThen(ConsoleLog("Delaying for " \o converted.result.str \o "..."),
                ConsoleLog("Delay finished")))
  ELSE ThrowNamed("TypeError", "delayTime")

delayTime_pm(time) ==
  IF getType(time) = "Number" THEN
    LET converted == convertTime_pm(time)
    IN  AndThen(converted,
        AndThen(ConsoleLog("Delaying for " \o converted.result.str \o "..."),
                SetTimeout))
  ELSE ThrowNamed("TypeError", "delayTime")

delayTime_bdd(time) ==
  IF typeof(time) = "number" THEN
    LET converted == convertTime_bdd(time)
    IN  AndThen(converted,
        AndThen(ConsoleLog("Delaying for " \o converted.result.str \o "..."),
                SetTimeout))
  ELSE Throw("TypeError", "delayTime")

delayTime(v, time) == IF v = "pm" THEN delayTime_pm(time) ELSE delayTime_bdd(time)

(***************************************************************************)
(* getSchemaHAL                                                            *)
(* The schema it returns is kept by the parts that differ between calls    *)
(* and variants: the top-level required keys, the required link relations, *)
(* the items schema of _embedded.resourceList and the minimum of            *)
(* _page.number.                                                            *)
(***************************************************************************)
\* {}: the value of the default parameter
EmptySchema == Obj(0)

\* function f(p = d): the default replaces an argument that is undefined
\* (omitted or passed as undefined), and no other value
DefaultParameter(value, default) ==
  IF value.kind = "Undefined" THEN default ELSE value

SchemaHAL(linksRequired, items, pageNumberMinimum) ==
  [type |-> "object",
   required |-> <<"_links", "_embedded", "_page">>,
   linksRequired |-> linksRequired,
   embeddedRequired |-> <<"resourceList">>,
   items |-> items,
   pageRequired |-> <<"size", "number">>,
   pageNumberMinimum |-> pageNumberMinimum]

getSchemaHAL_pm(argument) ==
  LET schemaResourceItems == DefaultParameter(argument, EmptySchema)
  IN  IF getType(schemaResourceItems) = "Object" THEN
        Return(SchemaHAL(<<"self", "first", "last">>, schemaResourceItems, 1))
      ELSE ThrowNamed("TypeError", "getSchemaHAL")

getSchemaHAL_bdd(argument) ==
  LET schemaResourceItems == DefaultParameter(argument, EmptySchema)
  IN  Return(SchemaHAL(<<"self", "next", "previous", "first", "last">>,
                       schemaResourceItems, 0))

getSchemaHAL(v, argument) ==
  IF v = "pm" THEN getSchemaHAL_pm(argument) ELSE getSchemaHAL_bdd(argument)

(***************************************************************************)
(* Inputs.                                                                 *)
(***************************************************************************)
Variants == {"pm", "bdd"}

ResponseCodes == {200, 404, 500, 502, 503, 504, 401, 403}

\* the headers of a response: both present or both absent
ResponseHeaders ==
  {[contentType |-> "application/json; charset=utf-8", location |-> "/items/1"],
   [contentType |-> "", location |-> ""]}

Responses ==
  {[code |-> c, responseTime |-> 100, body |-> b,
    contentType |-> h.contentType, location |-> h.location] :
     c \in ResponseCodes, b \in {"", "oops", "{}"}, h \in ResponseHeaders}

\* one argument of every runtime kind
KindValues ==
  {Undefined, Null, Bool(TRUE), NaN, Num(0), Num(42), Str(""), Str("200"), Str("abc"),
   Obj(0), Obj(1), Arr(""), Arr("200")}

\* arguments of a direct call of an assertion function
TimeValues == KindValues \cup {Num(n) : n \in {-5, 99, 100, 101, 1500}}
StatusValues ==
  KindValues \cup {Num(n) : n \in {99, 100, 199, 200, 299, 300, 399, 400, 404,
                                   499, 500, 599, 600}}
ContentTypeValues == KindValues \cup {Str("application/json"), Str("text/html")}
SchemaValues == KindValues
LocationValues == KindValues \cup {Str("/items/1")}

\* arguments of the composites
StatusArgs == {Num(0), Num(200), Num(500), Num(600)}
ContentTypeArgs == {Undefined, Str("application/json")}
SchemaArgs == {Undefined, Obj(1), Str("abc")}
LocationArgs == {Undefined, Str("/items/1"), Num(42)}
TimeArgs == {Undefined, Num(0), Num(101), Num(-5)}
DelayArgs == {Num(1500), Str("abc")}
\* getSchemaHAL: an omitted argument is Undefined
ItemSchemaArgs == KindValues

(***************************************************************************)
(* The script: one library call per step.  A call that raises halts the     *)
(* script; a call that returns is followed by the next statement.           *)
(***************************************************************************)
NoCall == [fn |-> "none", args |-> <<>>, eff |-> NoEffect]

Init ==
  /\ variant \in Variants
  /\ response \in Responses
  /\ nextRequest = "unset"
  /\ timers = 0
  /\ console = <<>>
  /\ calls = 0
  /\ pc = "ready"
  /\ last = NoCall

\* the host's side of a call with effect eff
Call(fn, args, eff) ==
  /\ pc = "ready"
  /\ calls < MaxCalls
  /\ calls' = calls + 1
  /\ last' = [fn |-> fn, args |-> args, eff |-> eff]
  /\ nextRequest' = IF eff.aborts > 0 THEN "null" ELSE nextRequest
  /\ timers' = timers + eff.timeouts
  /\ console' = console \o eff.logs
  /\ pc' = IF eff.error = "none" THEN "returned" ELSE "halted"
  /\ UNCHANGED <<variant, response>>

CallCheckTime ==
  \E time \in TimeValues :
    Call("checkTime", <<time>>, checkTime(variant, time, response))

CallCheckStatusCode ==
  \E statusCode \in StatusValues :
    Call("checkStatusCode", <<statusCode>>, checkStatusCode(variant, statusCode, response))

CallCheckContentType ==
  \E contentType \in ContentTypeValues :
    Call("checkContentType", <<contentType>>,
         checkContentType(variant, contentType, response))

CallCheckJSONSchema ==
  \E jsonSchema \in SchemaValues :
    Call("checkJSONSchema", <<jsonSchema>>, checkJSONSchema(variant, jsonSchema, response))

CallCheckLocation ==
  \E location \in LocationValues :
    Call("checkLocation", <<location>>, checkLocation(variant, location, response))

CallTestCommon ==
  \E statusCode \in StatusArgs, contentType \in ContentTypeArgs,
     jsonSchema \in SchemaArgs, location \in LocationArgs :
    Call("testCommon", <<statusCode, contentType, jsonSchema, location>>,
         testCommon(variant, statusCode, contentType, jsonSchema, location, response))

CallTestCommonAndTime ==
  \E statusCode \in StatusArgs, time \in TimeArgs, contentType \in ContentTypeArgs,
     jsonSchema \in SchemaArgs, location \in LocationArgs :
    Call("testCommonAndTime", <<statusCode, time, contentType, jsonSchema, location>>,
         testCommonAndTime(variant, statusCode, time, contentType, jsonSchema,
                           location, response))

CallDelayTime ==
  \E time \in DelayArgs :
    Call("delayTime", <<time>>, delayTime(variant, time))

CallGetSchemaHAL ==
  \E itemSchema \in ItemSchemaArgs :
    Call("getSchemaHAL", <<itemSchema>>, getSchemaHAL(variant, itemSchema))

\* the script goes on to its next statement
NextStatement ==
  /\ pc = "returned"
  /\ pc' = "ready"
  /\ last' = NoCall
  /\ UNCHANGED <<variant, response, nextRequest, timers, console, calls>>

\* the script has no statement left
ScriptEnds ==
  /\ pc = "ready"
  /\ pc' = "done"
  /\ UNCHANGED <<variant, response, nextRequest, timers, console, calls, last>>

\* () => console.log("Delay finished"): a timer callback runs once the script
\* is no longer running
TimerFires ==
  /\ pc \in {"done", "halted"}
  /\ timers > 0
  /\ timers' = timers - 1
  /\ console' = console \o <<"Delay finished">>
  /\ UNCHANGED <<variant, response, nextRequest, calls, pc, last>>

Next ==
  \/ CallCheckTime
  \/ CallCheckStatusCode
  \/ CallCheckContentType
  \/ CallCheckJSONSchema
  \/ CallCheckLocation
  \/ CallTestCommon
  \/ CallTestCommonAndTime
  \/ CallDelayTime
  \/ CallGetSchemaHAL
  \/ NextStatement
  \/ ScriptEnds
  \/ TimerFires

Spec == Init /\ [][Next]_vars

(***************************************************************************)
(* getIndexObjectInArray.  The array argument is a record of its kind and   *)
(* its items; an item is a record of its kind and, for an object, the value *)
(* of its property "id" (Undefined when the object has no such property).   *)
(***************************************************************************)
ArrayOf(items) == [kind |-> "Array", items |-> items]
NotAnArray(kind) == [kind |-> kind, items |-> <<>>]
Item(kind, id) == [kind |-> kind, id |-> id]

\* typeof item
typeofItem(item) ==
  CASE item.kind = "Number" -> "number"
    [] item.kind = "String" -> "string"
    [] OTHER -> "object"

\* a === b
StrictEquals(a, b) == a.kind = b.kind /\ ~IsNaN(a) /\ a = b

\* item[property]: raises the runtime's own TypeError on null
GetProperty(item, property) ==
  IF item.kind = "Null" THEN Throw("TypeError", "")
  ELSE IF item.kind = "Object" /\ property.str = "id" THEN Return(item.id)
  ELSE Return(Undefined)

\* array.every(item => getType(item) === "Object")
EveryObject_pm(items) == \A i \in 1..Len(items) : items[i].kind = "Object"

\* array.every(item => typeof item === 'object')
EveryObject_bdd(items) == \A i \in 1..Len(items) : typeofItem(items[i]) = "object"

\* array.findIndex(item => item[property] === value), from position i (1-based)
RECURSIVE findIndex(_, _, _, _)
findIndex(items, property, value, i) ==
  IF i > Len(items) THEN Return(Num(-1))
  ELSE LET got == GetProperty(items[i], property)
       IN  IF got.error # "none" THEN got
           ELSE IF StrictEquals(got.result, value) THEN Return(Num(i - 1))
           ELSE findIndex(items, property, value, i + 1)

getIndexObjectInArray_pm(array, property, value) ==
  IF array.kind = "Array" /\ EveryObject_pm(array.items) /\ getType(property) = "String"
  THEN findIndex(array.items, property, value, 1)
  ELSE ThrowNamed("TypeError", "getIndexObjectInArray")

getIndexObjectInArray_bdd(array, property, value) ==
  IF array.kind = "Array" /\ EveryObject_bdd(array.items) /\ typeof(property) = "string"
  THEN findIndex(array.items, property, value, 1)
  ELSE Throw("TypeError", "getIndexObjectInArray")

getIndexObjectInArray(v, array, property, value) ==
  IF v = "pm" THEN getIndexObjectInArray_pm(array, property, value)
  ELSE getIndexObjectInArray_bdd(array, property, value)

(***************************************************************************)
(* generateNumber.  Math.random() is k / RandomSteps for 0 <= k <           *)
(* RandomSteps; min and max are integers or NaN.                            *)
(***************************************************************************)
\* Math.ceil in the place of Math.floor
CeilRandom(k, span, low) ==
  Num(((k * span + RandomSteps - 1) \div RandomSteps) + low)

\* Math.floor(random * span + low) for integers span >= 0 and low
FloorRandom(k, span, low) == Num(((k * span) \div RandomSteps) + low)

generateNumber_pm(min, max, k) ==
  IF getType(min) = "Number" /\ getType(max) = "Number" THEN
    IF JsLe(min, max) THEN Return(FloorRandom(k, max.num - min.num + 1, min.num))
    ELSE ThrowNamed("RangeError", "generateNumber")
  ELSE ThrowNamed("TypeError", "generateNumber")

generateNumber_bdd(min, max, k) ==
  IF typeof(min) = "number" /\ typeof(max) = "number" THEN
    IF JsLe(min, max) THEN Return(FloorRandom(k, max.num - min.num + 1, min.num))
    ELSE IF IsNaN(min) \/ IsNaN(max) THEN Return(NaN)
    ELSE Return(FloorRandom(k, min.num - max.num + 1, max.num))
  ELSE Throw("TypeError", "generateNumber")

generateNumber(v, min, max, k) ==
  IF v = "pm" THEN generateNumber_pm(min, max, k) ELSE generateNumber_bdd(min, max, k)

(***************************************************************************)
(* Specifications of the two pure helpers: the inputs are drawn from        *)
(* bounded sets and the function is applied.                                *)
(***************************************************************************)
DefaultResponse ==
  [code |-> 200, responseTime |-> 100, body |-> "{}",
   contentType |-> "application/json; charset=utf-8", location |-> "/items/1"]

InitHelper ==
  /\ variant \in Variants
  /\ response = DefaultResponse
  /\ nextRequest = "unset"
  /\ timers = 0
  /\ console = <<>>
  /\ calls = 0
  /\ pc = "ready"
  /\ last = NoCall

Items ==
  {Item("Object", id) : id \in {Undefined, Num(1), Num(2)}}
  \cup {Item("Null", Undefined), Item("Array", Undefined), Item("Number", Undefined)}

RECURSIVE SeqsUpTo(_, _)
SeqsUpTo(S, n) ==
  IF n = 0 THEN {<<>>}
  ELSE LET shorter == SeqsUpTo(S, n - 1)
       IN  shorter \cup {Append(q, x) : q \in shorter, x \in S}

ArrayArgs ==
  {ArrayOf(items) : items \in SeqsUpTo(Items, MaxLen)}
  \cup {NotAnArray("Object"), NotAnArray("Null"), NotAnArray("String")}

PropertyArgs == {Str("id"), Str("name"), Num(0), Undefined}
ValueArgs == {Undefined, Num(1), Num(2)}

CallGetIndexObjectInArray ==
  \E array \in ArrayArgs, property \in PropertyArgs, value \in ValueArgs :
    Call("getIndexObjectInArray", <<array, property, value>>,
         getIndexObjectInArray(variant, array, property, value))

NextIndex == CallGetIndexObjectInArray \/ NextStatement

SpecIndex == InitHelper /\ [][NextIndex]_vars

MinMaxArgs == {Num(n) : n \in {-2, -1, 0, 1, 3, 5}} \cup {NaN, Str("1"), Undefined}

CallGenerateNumber ==
  \E min \in MinMaxArgs, max \in MinMaxArgs, k \in 0..(RandomSteps - 1) :
    Call("generateNumber", <<min, max, Num(k)>>, generateNumber(variant, min, max, k))

NextNumber == CallGenerateNumber \/ NextStatement

SpecNumber == InitHelper /\ [][NextNumber]_vars

(***************************************************************************)
(* Vocabulary of the properties.                                           *)
(***************************************************************************)
AssertionFunctions ==
  {"checkStatusCode", "checkContentType", "checkTime", "checkJSONSchema", "checkLocation"}

ValidationErrors == {"TypeError", "RangeError"}

IsAssertionCall == last.fn \in AssertionFunctions

\* the argument of a direct call of an assertion function
Arg == last.args[1]

IsNumberArg == IsAssertionCall /\ Arg.kind = "Number" /\ ~IsNaN(Arg)

Registered == Len(last.eff.outcomes)

InfrastructureCodes == {500, 502, 503, 504, 401, 403}

(***************************************************************************)
(* C1: every call of an assertion function either registers exactly one    *)
(* outcome and raises no validation error, or raises exactly one           *)
(* validation error (TypeError or RangeError) and registers no outcome.    *)
(* Violated: checkJSONSchema of the pm variant reads pm.response.json()    *)
(* outside the test callback, so a body that is no JSON ends the call with *)
(* the parser's error and without an outcome.                              *)
(***************************************************************************)
C1_OutcomeXorValidationError ==
  IsAssertionCall =>
    \/ Registered = 1 /\ last.eff.error = "none"
    \/ Registered = 0 /\ last.eff.error \in ValidationErrors

(***************************************************************************)
(* C2: checkStatusCode(c) for a number c: within [100,599] it registers    *)
(* one outcome labelled by c's hundred-bucket that passes exactly when the *)
(* actual status equals c; outside it raises RangeError and registers no   *)
(* outcome.                                                                *)
(***************************************************************************)
BucketLabels(hundreds) ==
  CASE hundreds = 1 -> {"Status Code (Information)", "should be an information response"}
    [] hundreds = 2 -> {"Status Code (Success)", "should be a successful response"}
    [] hundreds = 3 -> {"Status Code (Redirection)", "should be a redirection response"}
    [] hundreds = 4 -> {"Status Code (Client Error)", "should be a client error response"}
    [] hundreds = 5 -> {"Status Code (Server Error)", "should be a server error response"}
    [] OTHER -> {}

C2_StatusCodeBuckets ==
  (last.fn = "checkStatusCode" /\ IsNumberArg) =>
    IF 100 <= Arg.num /\ Arg.num <= 599
    THEN /\ last.eff.error = "none"
         /\ Registered = 1
         /\ last.eff.outcomes[1].label \in BucketLabels(Arg.num \div 100)
         /\ last.eff.outcomes[1].pass <=> (response.code = Arg.num)
    ELSE /\ last.eff.error = "RangeError"
         /\ Registered = 0

C2_Witness ==
  /\ last.fn = "checkStatusCode"
  /\ IsNumberArg
  /\ Arg.num = 499
  /\ Registered = 1
  /\ ~last.eff.outcomes[1].pass

(***************************************************************************)
(* C3 as stated: in the pm variant, whenever the actual status is one of   *)
(* 500, 502, 503, 504, 401, 403 and differs from the expected code, the    *)
(* status-code check signals abort exactly once.  Violated for an expected *)
(* code outside [100,599]: the check raises RangeError before the abort.   *)
(***************************************************************************)
C3_Original ==
  (/\ variant = "pm"
   /\ last.fn = "checkStatusCode"
   /\ IsNumberArg
   /\ response.code \in InfrastructureCodes
   /\ response.code # Arg.num)
  => last.eff.aborts = 1

(***************************************************************************)
(* C3 amended: the same, for every expected code within [100,599]: abort   *)
(* is signalled exactly once and the next request is set to null.          *)
(***************************************************************************)
C3_AbortOnceForValidExpected ==
  (/\ variant = "pm"
   /\ last.fn = "checkStatusCode"
   /\ IsNumberArg
   /\ 100 <= Arg.num /\ Arg.num <= 599
   /\ response.code \in InfrastructureCodes
   /\ response.code # Arg.num)
  => /\ last.eff.aborts = 1
     /\ nextRequest = "null"

C3_Witness ==
  /\ variant = "pm"
  /\ last.fn = "checkStatusCode"
  /\ IsNumberArg
  /\ Arg.num = 200
  /\ response.code = 403
  /\ last.eff.aborts = 1
  /\ nextRequest = "null"

(***************************************************************************)
(* Vocabulary of the properties about the composites.                      *)
(***************************************************************************)
IsCompositeCall == last.fn \in {"testCommon", "testCommonAndTime"}

StatusArg == last.args[1]

\* the argument a composite call hands to check f (Undefined: none)
ArgOf(f) ==
  CASE f = "checkStatusCode" -> last.args[1]
    [] f = "checkTime" ->
         IF last.fn = "testCommonAndTime" THEN last.args[2] ELSE Undefined
    [] f = "checkContentType" ->
         IF last.fn = "testCommonAndTime" THEN last.args[3] ELSE last.args[2]
    [] f = "checkJSONSchema" ->
         IF last.fn = "testCommonAndTime" THEN last.args[4] ELSE last.args[3]
    [] f = "checkLocation" ->
         IF last.fn = "testCommonAndTime" THEN last.args[5] ELSE last.args[4]

Supplied(f) == ToBoolean(ArgOf(f))

SecondaryChecks == {"checkContentType", "checkJSONSchema", "checkLocation"}

\* the position of a check in the text of the composites
CheckOrder(f) ==
  CASE f = "checkStatusCode" -> 1
    [] f = "checkContentType" -> 2
    [] f = "checkJSONSchema" -> 3
    [] f = "checkLocation" -> 4
    [] f = "checkTime" -> 5

\* the outcome kind a check registers
KindOf(f) ==
  CASE f = "checkStatusCode" -> "status"
    [] f = "checkContentType" -> "contentType"
    [] f = "checkJSONSchema" -> "schema"
    [] f = "checkLocation" -> "location"
    [] f = "checkTime" -> "time"

WasRun(f) == \E i \in 1..Len(last.eff.called) : last.eff.called[i] = f

Raised == last.eff.error # "none"

\* the check that raised: the one entered last
Raiser == last.eff.called[Len(last.eff.called)]

RaisedBefore(f) == Raised /\ CheckOrder(Raiser) < CheckOrder(f)

HasOutcome(f) ==
  \E i \in 1..Len(last.eff.outcomes) : last.eff.outcomes[i].check = KindOf(f)

Failed(f) ==
  \E i \in 1..Len(last.eff.outcomes) :
    last.eff.outcomes[i].check = KindOf(f) /\ ~last.eff.outcomes[i].pass

StatusMatches == StrictEqualsNumber(response.code, StatusArg)

(***************************************************************************)
(* C4 as stated: testCommon runs the status-code check whenever statusCode *)
(* is supplied; in the pm variant a secondary check runs only if the       *)
(* actual status equals the expected one and its own argument is supplied; *)
(* in the other variant a secondary check runs whenever its own argument   *)
(* is supplied.  Violated in the other variant when an earlier check of    *)
(* the call raises: the later checks are never reached.                    *)
(***************************************************************************)
C4_Original ==
  IsCompositeCall =>
    /\ Supplied("checkStatusCode") => WasRun("checkStatusCode")
    /\ variant = "pm" =>
         \A f \in SecondaryChecks : WasRun(f) => (StatusMatches /\ Supplied(f))
    /\ variant = "bdd" =>
         \A f \in SecondaryChecks : Supplied(f) => WasRun(f)

(***************************************************************************)
(* C4 amended: as stated, except that in the looser variant a secondary    *)
(* check runs whenever its own argument is supplied and no earlier check   *)
(* of the same call has raised.                                            *)
(***************************************************************************)
C4_GateByVariant ==
  IsCompositeCall =>
    /\ Supplied("checkStatusCode") => WasRun("checkStatusCode")
    /\ variant = "pm" =>
         \A f \in SecondaryChecks : WasRun(f) => (StatusMatches /\ Supplied(f))
    /\ variant = "bdd" =>
         \A f \in SecondaryChecks : (Supplied(f) /\ ~RaisedBefore(f)) => WasRun(f)

C4_Witness ==
  /\ last.fn = "testCommon"
  /\ variant = "bdd"
  /\ Supplied("checkStatusCode")
  /\ ~StatusMatches
  /\ ~Raised
  /\ \A f \in SecondaryChecks : WasRun(f)

(***************************************************************************)
(* C5: an assertion function called with a primary argument of another     *)
(* kind than the documented one raises TypeError before any outcome is     *)
(* registered and before any abort signal.  Violated in Commontests.js:    *)
(* checkContentType and checkLocation check nothing, checkStatusCode and   *)
(* checkTime compare after coercion, checkJSONSchema tests typeof.         *)
(***************************************************************************)
DocumentedKind(f) ==
  CASE f = "checkStatusCode" -> "Number"
    [] f = "checkContentType" -> "String"
    [] f = "checkTime" -> "Number"
    [] f = "checkJSONSchema" -> "Object"
    [] f = "checkLocation" -> "String"

C5_TypeErrorOnWrongKind ==
  (IsAssertionCall /\ getType(Arg) # DocumentedKind(last.fn)) =>
    /\ last.eff.error = "TypeError"
    /\ Registered = 0
    /\ last.eff.aborts = 0

(***************************************************************************)
(* C6: checkTime(t) for a number t: t <= 0 raises RangeError and registers *)
(* no outcome; t > 0 registers exactly one outcome, which passes exactly   *)
(* when the elapsed time is strictly below t.                              *)
(***************************************************************************)
C6_TimeRangeAndStrictBelow ==
  (last.fn = "checkTime" /\ IsNumberArg) =>
    IF Arg.num <= 0
    THEN /\ last.eff.error = "RangeError"
         /\ Registered = 0
    ELSE /\ last.eff.error = "none"
         /\ Registered = 1
         /\ last.eff.outcomes[1].check = "time"
         /\ last.eff.outcomes[1].pass <=> (response.responseTime < Arg.num)

C6_Witness ==
  /\ last.fn = "checkTime"
  /\ IsNumberArg
  /\ Arg.num = response.responseTime
  /\ Registered = 1
  /\ ~last.eff.outcomes[1].pass

(***************************************************************************)
(* C7 as stated: within one composite call, an error raised by a check     *)
(* propagates, so that check and the later ones register no outcome; a     *)
(* failed assertion is recorded as a failing outcome, raises nothing, and  *)
(* the sibling checks whose arguments were supplied are still run.         *)
(* Calls in which abort was signalled are left aside here, as the spec's   *)
(* sentence does.  Violated in the pm variant: a failed status assertion   *)
(* closes the gate of the content-type, schema and Location checks.        *)
(***************************************************************************)
AllChecks == SecondaryChecks \cup {"checkStatusCode", "checkTime"}

ErrorPropagates ==
  Raised =>
    /\ pc = "halted"
    /\ \A f \in AllChecks : CheckOrder(f) >= CheckOrder(Raiser) => ~HasOutcome(f)

C7_Original ==
  (IsCompositeCall /\ last.eff.aborts = 0) =>
    /\ ErrorPropagates
    /\ \A f \in AllChecks :
         Failed(f) =>
           /\ Raised => Raiser # f
           /\ \A g \in AllChecks : Supplied(g) => (WasRun(g) \/ RaisedBefore(g))

(***************************************************************************)
(* C7 amended: as stated, except that in the pm variant the content-type,  *)
(* schema and Location checks are skipped when the actual status differs   *)
(* from the expected one; a supplied check is also not reached when a      *)
(* check before it raised.                                                 *)
(***************************************************************************)
C7_RaisePropagatesFailureDoesNot ==
  IsCompositeCall =>
    /\ ErrorPropagates
    /\ \A f \in AllChecks :
         Failed(f) =>
           /\ Raised => Raiser # f
           /\ \A g \in AllChecks :
                Supplied(g) =>
                  \/ WasRun(g)
                  \/ RaisedBefore(g)
                  \/ variant = "pm" /\ g \in SecondaryChecks /\ ~StatusMatches

C7_Witness ==
  /\ last.fn = "testCommonAndTime"
  /\ variant = "bdd"
  /\ Failed("checkStatusCode")
  /\ Failed("checkJSONSchema")
  /\ ~Raised
  /\ \A g \in AllChecks : WasRun(g) /\ HasOutcome(g)

(***************************************************************************)
(* C8: only the status-code check signals abort, at most once per call,    *)
(* and only when it registered its outcome (it did not raise), the actual  *)
(* status differs from the expected code and is one of 500, 502, 503, 504, *)
(* 401, 403; once the next request is set to null no step of the library   *)
(* changes it back, and it changes only in a call that signalled abort.    *)
(***************************************************************************)
AbortOnlyFromStatusCheck ==
  /\ last.eff.aborts <= 1
  /\ last.eff.aborts > 0 =>
       /\ variant = "pm"
       /\ last.fn \in {"checkStatusCode", "testCommon", "testCommonAndTime"}
       /\ WasRun("checkStatusCode")
       /\ HasOutcome("checkStatusCode")
       /\ ~StatusMatches
       /\ response.code \in InfrastructureCodes
  /\ (nextRequest = "null") => variant = "pm"

AbortIsNeverCleared ==
  /\ nextRequest = "null" => nextRequest' = "null"
  /\ nextRequest' # nextRequest => last'.eff.aborts > 0

C8_AbortOnlySignal == [](AbortOnlyFromStatusCheck) /\ [][AbortIsNeverCleared]_vars

C8_Witness ==
  /\ nextRequest = "null"
  /\ calls = 2
  /\ last.fn \in {"checkStatusCode", "testCommonAndTime"}
  /\ last.eff.aborts = 0

(***************************************************************************)
(* C9: getIndexObjectInArray(array, p, v) on an array of objects and a     *)
(* string p returns the smallest index i with array[i][p] === v, or -1     *)
(* when there is none; on a non-array, on an array with an element that is *)
(* no object (null and nested arrays included) or on a p that is no string *)
(* it raises TypeError and returns no index.  Violated in Commontests.js:  *)
(* typeof accepts null and nested arrays as elements.                      *)
(***************************************************************************)
IndexArray == last.args[1]
IndexProperty == last.args[2]
IndexValue == last.args[3]

\* array[i][p] === v for the 1-based position i of an object
Matches(i) ==
  StrictEquals(IF IndexProperty.str = "id" THEN IndexArray.items[i].id ELSE Undefined,
               IndexValue)

WellFormedIndexCall ==
  /\ IndexArray.kind = "Array"
  /\ \A i \in 1..Len(IndexArray.items) : IndexArray.items[i].kind = "Object"
  /\ IndexProperty.kind = "String"

C9_FirstIndexOrTypeError ==
  last.fn = "getIndexObjectInArray" =>
    IF WellFormedIndexCall
    THEN /\ last.eff.error = "none"
         /\ last.eff.result.kind = "Number"
         /\ LET r == last.eff.result.num
                n == Len(IndexArray.items)
            IN  \/ /\ r = -1
                   /\ \A i \in 1..n : ~Matches(i)
                \/ /\ r \in 0..(n - 1)
                   /\ Matches(r + 1)
                   /\ \A i \in 1..r : ~Matches(i)
    ELSE /\ last.eff.error = "TypeError"
         /\ last.eff.result = Undefined

(***************************************************************************)
(* C10: for integers min <= max and every random draw, generateNumber      *)
(* returns an integer r with min <= r <= max; for min > max the pm variant *)
(* raises RangeError and returns nothing, the other variant returns an     *)
(* integer in [max, min].                                                  *)
(***************************************************************************)
IsIntegerValue(v) == v.kind = "Number" /\ ~IsNaN(v)

ItemSchema == last.args[1]

C11_SchemaHALOrTypeError ==
  last.fn = "getSchemaHAL" =>
    IF ItemSchema.kind \notin {"Undefined", "Object"}
    THEN /\ last.eff.error = "TypeError"
         /\ last.eff.result = Undefined
    ELSE /\ last.eff.error = "none"
         /\ last.eff.result.items =
              (IF ItemSchema.kind = "Undefined" THEN EmptySchema ELSE ItemSchema)
         /\ last.eff.result.required = <<"_links", "_embedded", "_page">>

\* the same statement about the pm variant alone
C11_HoldsInPm == variant = "pm" => C11_SchemaHALOrTypeError

C11_PmSchemaReturned ==
  /\ variant = "pm"
  /\ last.fn = "getSchemaHAL"
  /\ ItemSchema = Obj(1)
  /\ last.eff.error = "none"
  /\ last.eff.result.items = Obj(1)

(***************************************************************************)
(* C12: delayTime(t) with a numeric t returns to the calling script        *)
(* without waiting for the timer: it logs, schedules one callback and      *)
(* returns with the callback still pending, registering no outcome and     *)
(* giving no abort signal; the script's later calls can therefore register *)
(* outcomes before "Delay finished" is logged.  Every scheduled callback   *)
(* fires at most once, and the step in which it fires registers no outcome *)
(* and gives no abort signal.                                              *)
(***************************************************************************)
DelayFinished ==
  Cardinality({i \in 1..Len(console) : console[i] = "Delay finished"})

DelayStarted ==
  Cardinality({i \in 1..Len(console) : console[i] # "Delay finished"})

DelayReturnsAtOnce ==
  (last.fn = "delayTime" /\ Arg.kind = "Number") =>
    /\ last.eff.error = "none"
    /\ pc = "returned"
    /\ last.eff.timeouts = 1
    /\ timers >= 1
    /\ DelayFinished < DelayStarted
    /\ last.eff.outcomes = <<>>
    /\ last.eff.aborts = 0

CallbackAtMostOnce == DelayFinished + timers = DelayStarted

CallbackStep ==
  timers' < timers =>
    /\ timers' = timers - 1
    /\ console' = Append(console, "Delay finished")
    /\ last' = last
    /\ nextRequest' = nextRequest
    /\ pc' = pc

C12_DelayDoesNotBlock ==
  /\ [](DelayReturnsAtOnce /\ CallbackAtMostOnce)
  /\ [][CallbackStep]_vars

\* an outcome registered after delayTime returned and before its callback fired
C12_Witness ==
  /\ calls = 2
  /\ DelayStarted = 1
  /\ DelayFinished = 0
  /\ timers = 1
  /\ IsAssertionCall
  /\ Registered = 1

\* the callback fired after the script's second call
C12_CallbackFired == calls = 2 /\ DelayFinished = 1 /\ timers = 0

(***************************************************************************)
(* C13: in testCommonAndTime the time check is outside the status gate:    *)
(* whenever the time argument is a positive number and testCommon returned *)
(* without raising, the time outcome is registered, also when the actual   *)
(* status differs from the expected one and when the status-code check has *)
(* just signalled abort; when the time argument is 0 or omitted, checkTime *)
(* is not called, so no RangeError comes from it.                          *)
(***************************************************************************)
TimeArg == last.args[2]

IsPositiveNumber(value) == value.kind = "Number" /\ ~IsNaN(value) /\ value.num > 0

C13_TimeCheckOutsideGate ==
  last.fn = "testCommonAndTime" =>
    /\ (IsPositiveNumber(TimeArg) /\ ~RaisedBefore("checkTime")) =>
         /\ WasRun("checkTime")
         /\ HasOutcome("checkTime")
         /\ ~Raised
    /\ TimeArg \in {Num(0), Undefined} =>
         /\ ~WasRun("checkTime")
         /\ ~HasOutcome("checkTime")
         /\ Raised => Raiser # "checkTime"

\* the time outcome of a call whose status-code check failed and signalled abort
C13_Witness ==
  /\ last.fn = "testCommonAndTime"
  /\ IsPositiveNumber(TimeArg)
  /\ ~StatusMatches
  /\ last.eff.aborts = 1
  /\ Failed("checkStatusCode")
  /\ HasOutcome("checkTime")

\* time 0 with every other check run: no time check, no error
C13_TimeZeroSkipped ==
  /\ last.fn = "testCommonAndTime"
  /\ TimeArg = Num(0)
  /\ HasOutcome("checkStatusCode")
  /\ ~Raised
  /\ ~WasRun("checkTime")

(***************************************************************************)
(* C14: in the pm variant, a testCommon call (alone or inside              *)
(* testCommonAndTime) whose status-code check signals abort registers no   *)
(* content-type, schema or Location outcome: the abort condition (actual   *)
(* status differs from expected) and the gate of the secondary checks      *)
(* (actual status equals expected) exclude each other.                     *)
(***************************************************************************)
AbortSignalled == last.eff.aborts > 0

C14_AbortExcludesSecondaryChecks ==
  (variant = "pm" /\ IsCompositeCall) =>
    /\ AbortSignalled =>
         \A f \in SecondaryChecks : ~WasRun(f) /\ ~HasOutcome(f)
    /\ ~(AbortSignalled /\ StatusMatches)

\* an aborting call whose secondary checks were all supplied
C14_Witness ==
  /\ variant = "pm"
  /\ last.fn = "testCommon"
  /\ AbortSignalled
  /\ \A f \in SecondaryChecks : Supplied(f)
  /\ Registered >= 1

(***************************************************************************)
(* C15: the outcomes registered by one testCommonAndTime call that raises  *)
(* no error appear in a fixed order: the response-body entry (present      *)
(* exactly when the response body is non-empty, before any check), then    *)
(* status code, content type, JSON schema, Location, then time; each kind  *)
(* appears at most once, so the number of outcomes is the number of checks *)
(* run, plus one when the body is non-empty.                               *)
(***************************************************************************)
OutcomeRank(check) ==
  CASE check = "body" -> 0
    [] check = "status" -> 1
    [] check = "contentType" -> 2
    [] check = "schema" -> 3
    [] check = "location" -> 4
    [] check = "time" -> 5

Outcomes == last.eff.outcomes

BodyLogged == \E i \in 1..Len(Outcomes) : Outcomes[i].check = "body"

C15_OutcomeOrder ==
  (last.fn = "testCommonAndTime" /\ ~Raised) =>
    /\ \A i, j \in 1..Len(Outcomes) :
         i < j => OutcomeRank(Outcomes[i].check) < OutcomeRank(Outcomes[j].check)
    /\ BodyLogged <=> response.body # ""
    /\ \A f \in AssertionFunctions : WasRun(f) <=> HasOutcome(f)
    /\ Len(Outcomes) =
         Len(last.eff.called) + (IF response.body # "" THEN 1 ELSE 0)

\* a call that registers all six kinds
C15_Witness ==
  /\ last.fn = "testCommonAndTime"
  /\ ~Raised
  /\ Len(Outcomes) = 6
  /\ Outcomes[1].check = "body"
  /\ Outcomes[6].check = "time"

====
